---------------------------- MODULE Spec2Model ----------------------------
(***************************************************************************)
(* PlantBot2 production firmware: the wake / sense / decide / upload /     *)
(* sleep cycle of firmware/PlatformIO/plantbot_production/src/main.cpp.    *)
(*                                                                         *)
(* Numbers.  sensorData.batteryVoltage and batteryHistory[] are C++ float  *)
(* (IEEE binary32); the thresholds they are compared with are double       *)
(* literals, so every comparison is made exactly, in double.  A voltage is *)
(* held here as an integer count of 2^-23 V.  In [2 V, 4 V) the binary32   *)
(* values are exactly the even counts, in [4 V, 8 V) the multiples of 4.   *)
(* A double literal that is no binary32 value (3.6, 3.7, 3.8, 3.9, 4.1,    *)
(* 4.2) lies strictly between two neighbouring binary32 values and is held *)
(* as an odd count strictly between the same two neighbours, so that       *)
(* <, <=, > against any binary32 voltage give the result the build gives.  *)
(* Durations passed to enterDeepSleep are held in seconds (the source      *)
(* passes microseconds in 64 bits; every value is a whole number of        *)
(* seconds and nothing overflows).                                         *)
(***************************************************************************)
EXTENDS Integers, Sequences, FiniteSets, TLC

\* ------------------------------------------------------------------ bounds
\* Wakes modelled per behaviour of Spec.
MaxBoots == 3
\* Appends modelled per behaviour of TrendSpec (more than BATTERY_TREND_SAMPLES).
MaxAppends == 12
\* Longest per-cycle event trace an action may extend.
MaxTrace == 10
\* Largest MAX_RETRIES a build is configured with under RetrySpec.
MaxConfiguredRetries == 4

\* --------------------------------------------- plantbot2_pins.h constants
\* 3.7 V: between binary32 31037848 and 31037850
BATTERY_LOW_VOLTAGE == 31037849
\* 3.7 V
BATTERY_CRITICAL_VOLTAGE == 31037849
\* 3.6 V: between binary32 30198988 and 30198990
BATTERY_UVLO_VOLTAGE == 30198989
\* 4.2 V: between binary32 35232152 and 35232156
BATTERY_MAX_VOLTAGE == 35232153
\* 4.0 V, a binary32 value
CHARGING_DETECT_VOLTAGE == 33554432
BATTERY_TREND_SAMPLES == 10
SLEEP_DURATION_MINUTES == 120
CRITICAL_BATTERY_SLEEP_HOURS == 24
UVLO_SLEEP_HOURS == 48
CHARGING_LIGHT_THRESHOLD == 2000
MIN_SLEEP_MINUTES == 120
MAX_SLEEP_MINUTES == 360
CRITICAL_SLEEP_MINUTES == 1440
UVLO_SLEEP_MINUTES == 2880
MAX_RETRIES == 2

\* ------------------------------------------------ literals of main.cpp
\* 3.8 V (isCharging): between binary32 31876710 and 31876712
ChargingRangeVoltage == 31876711
\* 4.1 V (isCharging, calculateDynamicSleepTime): between 34393292 and 34393296
HighVoltage == 34393293
\* 3.9 V (calculateDynamicSleepTime): between binary32 32715570 and 32715572
LightBackupVoltage == 32715571
\* 0.015 V, 0.005 V and 0.01 V, each times 25 so that it is a whole count
RecentRise25 == 3145728
StableRise25 == 1048576
NoiseTolerance25 == 2097152
\* bootCount <= 3 || failedUploads > 10 (connectWiFi)
PortalBootLimit == 3
PortalFailureLimit == 10
HTTP_OK == 200

\* ------------------------------------------------------------ input sets
\* binary32 battery voltages readBatteryVoltage can return: 3.6f (the largest
\* below 3.6), its successor, the largest below 3.7, 3.7f (its successor),
\* 3.85f, 4.15f, 4.16f and 4.18f.  No binary32 value equals the double 3.6 or
\* 3.7, so the two neighbours of each threshold are the boundary cases of
\* every comparison.
Voltages == {30198988, 30198990, 31037848, 31037850, 32296140, 34812724,
             34896608, 35064380}
\* light levels (12-bit ADC average) on both sides of CHARGING_LIGHT_THRESHOLD
LightLevels == {1000, 3000}
\* status codes http.POST can return: success, another 2xx, a server error,
\* and a transport error (HTTPClient reports those as negative codes)
HttpCodes == {200, 201, 500, -1}
\* what a read of the word in front of batteryHistory[0] can give as a float
OobValues == {0, 35232152}
\* samples appended under TrendSpec
TrendVoltages == {32296140, 34812724}

\* ------------------------------------------------------------------ state
VARIABLES
    \* RTC_DATA_ATTR variables (main.cpp 36-42): survive deep sleep
    bootCount, wifiConfigured, failedUploads,
    batteryHistory, batteryHistoryIndex, batteryHistoryFull, lastSleepDuration,
    \* the running setup(): position, locals, and the radio
    pc, sensorsOK, sensorData, sleepMinutes, attempt, httpResponseCode,
    uploaded, payload, wifiOn,
    \* argument of esp_sleep_enable_timer_wakeup, in seconds (0: none yet)
    timerWakeupS,
    \* the value MAX_RETRIES has in the running build (plantbot2_pins.h 76)
    maxRetries,
    \* history variables of the verification
    trace,          \* collaborator calls of the current cycle, in order
    failedAtWake,   \* failedUploads when the current cycle woke
    lastAtWake,     \* lastSleepDuration when the current cycle woke
    sleptS,         \* duration of the suspension the current wake ended
    appended,       \* every sample passed to updateBatteryHistory, in order
    policyCharging  \* what isCharging returned to calculateDynamicSleepTime

rtcVars == <<bootCount, wifiConfigured, failedUploads, batteryHistory,
             batteryHistoryIndex, batteryHistoryFull, lastSleepDuration>>
cycleVars == <<pc, sensorsOK, sensorData, sleepMinutes, attempt,
               httpResponseCode, uploaded, payload, wifiOn, timerWakeupS>>
ghostVars == <<trace, failedAtWake, lastAtWake, sleptS, appended,
               policyCharging>>
buildVars == <<maxRetries>>
vars == <<rtcVars, cycleVars, buildVars, ghostVars>>

\* ---------------------------------------------------------------- helpers
Min(a, b) == IF a < b THEN a ELSE b
Max(a, b) == IF a > b THEN a ELSE b

\* the C++ % operator on int (truncates toward zero)
CMod(a, n) == IF a >= 0 THEN a % n ELSE -((-a) % n)

\* batteryHistory[k] as the build reads it: an index outside the array reads
\* whatever lies in front of it in RTC memory (undefined behaviour)
Slot(hist, k, oob) ==
    IF k \in 0..(BATTERY_TREND_SAMPLES - 1) THEN hist[k] ELSE oob

EmptyHistory == [k \in 0..(BATTERY_TREND_SAMPLES - 1) |-> 0]


\* ------------------------------------------------- Persistent Cycle Store
\* variant: the full flag follows the index instead of latching
updateBatteryHistoryFullUnlatched(hist, idx, full, voltage) ==
    LET next == (idx + 1) % BATTERY_TREND_SAMPLES
    IN  [history |-> [hist EXCEPT ![idx] = voltage],
         index   |-> next,
         full    |-> (next = 0)]

\* variant: the index is advanced before the store (pre-increment slip)
updateBatteryHistoryPreIncrement(hist, idx, full, voltage) ==
    LET next == (idx + 1) % BATTERY_TREND_SAMPLES
    IN  [history |-> [hist EXCEPT ![next] = voltage],
         index   |-> next,
         full    |-> (full \/ next = 0)]

\* variant: the index advances but the sample is not stored
updateBatteryHistoryDropsSample(hist, idx, full, voltage) ==
    LET next == (idx + 1) % BATTERY_TREND_SAMPLES
    IN  [history |-> hist,
         index   |-> next,
         full    |-> (full \/ next = 0)]

\* updateBatteryHistory (main.cpp 604-616): the three RTC variables after
\* the call
updateBatteryHistory(hist, idx, full, voltage) ==
    LET next == (idx + 1) % BATTERY_TREND_SAMPLES
    IN  [history |-> [hist EXCEPT ![idx] = voltage],
         index   |-> next,
         full    |-> (full \/ next = 0)]

\* ------------------------------------------------- Battery Trend Estimator
\* int samples = batteryHistoryFull ? BATTERY_TREND_SAMPLES : batteryHistoryIndex
Samples(idx, full) == IF full THEN BATTERY_TREND_SAMPLES ELSE idx

\* float currentVoltage = batteryHistory[(idx - 1 + N) % N]
CurrentVoltage(hist, idx, oob) ==
    Slot(hist, CMod(idx - 1 + BATTERY_TREND_SAMPLES, BATTERY_TREND_SAMPLES), oob)

\* variant: the indexes are reduced without first adding the buffer length
RecentDeltaNoWrap(hist, idx, i, oob) ==
    LET currentIdx == CMod(idx - 1 - (i - 1), BATTERY_TREND_SAMPLES)
        prevIdx    == CMod(idx - 1 - i, BATTERY_TREND_SAMPLES)
    IN  Slot(hist, currentIdx, oob) - Slot(hist, prevIdx, oob)

\* currentIdx and prevIdx of the recent-trend loop at step i (main.cpp 630-631)
RecentCurrentIdx(idx, i) ==
    CMod(idx - 1 - (i - 1) + BATTERY_TREND_SAMPLES, BATTERY_TREND_SAMPLES)
RecentPrevIdx(idx, i) ==
    CMod(idx - 1 - i + BATTERY_TREND_SAMPLES, BATTERY_TREND_SAMPLES)

\* the term the recent-trend loop adds at step i (main.cpp 630-632)
RecentDelta(hist, idx, i, oob) ==
    LET currentIdx == RecentCurrentIdx(idx, i)
        prevIdx    == RecentPrevIdx(idx, i)
    IN  Slot(hist, currentIdx, oob) - Slot(hist, prevIdx, oob)

\* currentIdx and prevIdx of the overall-trend loop at step i (main.cpp 639-640)
OverallCurrentIdx(idx, i) ==
    CMod(idx - 1 - i + BATTERY_TREND_SAMPLES, BATTERY_TREND_SAMPLES)
OverallPrevIdx(idx, i) ==
    CMod(idx - 2 - i + BATTERY_TREND_SAMPLES, BATTERY_TREND_SAMPLES)

\* the term the overall-trend loop adds at step i (main.cpp 639-641)
OverallDelta(hist, idx, i, oob) ==
    LET currentIdx == OverallCurrentIdx(idx, i)
        prevIdx    == OverallPrevIdx(idx, i)
    IN  Slot(hist, currentIdx, oob) - Slot(hist, prevIdx, oob)

\* int recentSamples = min(3, samples - 1)
RecentSamples(idx, full) == Min(3, Samples(idx, full) - 1)

\* the pairs <<currentIdx, prevIdx>> of slots whose difference isCharging adds
\* to recentTrend and to overallTrend (main.cpp 629-641)
RecentDeltasRead(idx, full) ==
    {<<RecentCurrentIdx(idx, i), RecentPrevIdx(idx, i)>> :
        i \in 1..RecentSamples(idx, full)}
OverallDeltasRead(idx, full) ==
    {<<OverallCurrentIdx(idx, i), OverallPrevIdx(idx, i)>> :
        i \in 1..(Samples(idx, full) - 1)}

\* recentTrend before the division: for (i = 1; i <= recentSamples; i++)
RECURSIVE RecentSum(_, _, _, _)
RecentSum(hist, idx, n, oob) ==
    IF n <= 0 THEN 0
    ELSE RecentSum(hist, idx, n - 1, oob) + RecentDelta(hist, idx, n, oob)

\* overallTrend before the division: for (i = 1; i < samples; i++), n = samples - 1
RECURSIVE OverallSum(_, _, _, _)
OverallSum(hist, idx, n, oob) ==
    IF n <= 0 THEN 0
    ELSE OverallSum(hist, idx, n - 1, oob) + OverallDelta(hist, idx, n, oob)

\* variant: the sum of the deltas is compared, not their mean
TrendAboveUndivided(sum, n, c25) == 25 * sum > c25

\* sum / n > c, where c25 is 25 times the threshold c (all in 2^-23 V, n > 0).
\* The division is taken exactly.
TrendAbove(sum, n, c25) == 25 * sum > c25 * n

\* variant: the estimator without its minimum of 3 samples
InsufficientDataNever(idx, full) == FALSE

\* !batteryHistoryFull && batteryHistoryIndex < 3 (main.cpp 619)
InsufficientData(idx, full) == ~full /\ idx < 3

\* variant: only a rising trend counts, a high voltage alone does not
isChargingTrendOnly(hist, idx, full, oob) ==
    IF InsufficientData(idx, full) THEN FALSE
    ELSE
      LET samples        == Samples(idx, full)
          recentSamples  == RecentSamples(idx, full)
          recentSum      == RecentSum(hist, idx, recentSamples, oob)
          overallSum     == OverallSum(hist, idx, samples - 1, oob)
      IN  /\ TrendAbove(recentSum, recentSamples, RecentRise25)
          /\ TrendAbove(overallSum, samples - 1, StableRise25)
          /\ CurrentVoltage(hist, idx, oob) > ChargingRangeVoltage

\* isCharging (main.cpp 618-659) on the RTC history
isCharging(hist, idx, full, oob) ==
    IF InsufficientData(idx, full) THEN FALSE
    ELSE
      LET samples        == Samples(idx, full)
          currentVoltage == CurrentVoltage(hist, idx, oob)
          recentSamples  == RecentSamples(idx, full)
          recentSum      == RecentSum(hist, idx, recentSamples, oob)
          overallSum     == OverallSum(hist, idx, samples - 1, oob)
          voltageRising  == TrendAbove(recentSum, recentSamples, RecentRise25)
          stableRise     == TrendAbove(overallSum, samples - 1, StableRise25)
          voltageInChargingRange == currentVoltage > ChargingRangeVoltage
          highVoltage    == currentVoltage > HighVoltage
      IN  (voltageRising /\ stableRise /\ voltageInChargingRange)
          \/ (highVoltage /\ TrendAbove(overallSum, samples - 1, -NoiseTolerance25))

\* --------------------------------------------------- Sleep Interval Policy
\* max(MIN_SLEEP_MINUTES, min(MAX_SLEEP_MINUTES, sleepMinutes)) (main.cpp 714)
ClampSleep(m) == Max(MIN_SLEEP_MINUTES, Min(MAX_SLEEP_MINUTES, m))

\* the battery-scaling branch (main.cpp 698-703); the uint32_t conversion
\* truncates
ScaledSleep(batteryVoltage) ==
    LET voltageRange == BATTERY_MAX_VOLTAGE - BATTERY_LOW_VOLTAGE
        num          == Max(0, Min(voltageRange, batteryVoltage - BATTERY_LOW_VOLTAGE))
    IN  (MAX_SLEEP_MINUTES * voltageRange
            - (MAX_SLEEP_MINUTES - MIN_SLEEP_MINUTES) * num) \div voltageRange

\* bool chargingConditions (main.cpp 676-685)
ChargingConditions(batteryVoltage, lightLevel, chargingDetected) ==
    LET highLight == lightLevel > CHARGING_LIGHT_THRESHOLD
        voltageIndicatesCharging == batteryVoltage > CHARGING_DETECT_VOLTAGE
    IN  chargingDetected
        \/ (highLight /\ batteryVoltage > LightBackupVoltage)
        \/ (voltageIndicatesCharging /\ batteryVoltage > HighVoltage)

\* variant: the policy without its UVLO check
PolicyUvloMissing(batteryVoltage) == FALSE

\* batteryVoltage <= BATTERY_UVLO_VOLTAGE (main.cpp 665)
PolicyUvlo(batteryVoltage) == batteryVoltage <= BATTERY_UVLO_VOLTAGE

\* variant: the critical cutoff lies at the UVLO voltage, below the voltage at
\* which the scaling starts
PolicyCriticalAtUvlo(batteryVoltage) == batteryVoltage <= BATTERY_UVLO_VOLTAGE

\* batteryVoltage <= BATTERY_CRITICAL_VOLTAGE (main.cpp 670)
PolicyCritical(batteryVoltage) == batteryVoltage <= BATTERY_CRITICAL_VOLTAGE

\* variant: hourly readings for a good battery, and no final clamp
AdaptiveSleepHourly(batteryVoltage, lightLevel, chargingDetected) ==
    IF ChargingConditions(batteryVoltage, lightLevel, chargingDetected)
      THEN MIN_SLEEP_MINUTES
    ELSE IF batteryVoltage < BATTERY_LOW_VOLTAGE
      THEN ScaledSleep(batteryVoltage)
    ELSE 60

\* variant: charging conditions select the longest sleep
AdaptiveSleepChargingSleepsLongest(batteryVoltage, lightLevel, chargingDetected) ==
    IF ChargingConditions(batteryVoltage, lightLevel, chargingDetected)
      THEN MAX_SLEEP_MINUTES
    ELSE IF batteryVoltage < BATTERY_LOW_VOLTAGE
      THEN ClampSleep(ScaledSleep(batteryVoltage))
    ELSE MIN_SLEEP_MINUTES

\* variant: without charging, a fuller battery sleeps longer
AdaptiveSleepLongerWhenFuller(batteryVoltage, lightLevel, chargingDetected) ==
    IF ChargingConditions(batteryVoltage, lightLevel, chargingDetected)
      THEN MIN_SLEEP_MINUTES
    ELSE ClampSleep(MIN_SLEEP_MINUTES + MAX_SLEEP_MINUTES
                      - ScaledSleep(batteryVoltage))

\* the if / else-if / else after the two cutoffs, and the final clamp
\* (main.cpp 687-714)
AdaptiveSleep(batteryVoltage, lightLevel, chargingDetected) ==
    LET sleepMinutes_ ==
          IF ChargingConditions(batteryVoltage, lightLevel, chargingDetected)
            THEN MIN_SLEEP_MINUTES
          ELSE IF batteryVoltage < BATTERY_LOW_VOLTAGE
            THEN ScaledSleep(batteryVoltage)
          ELSE MIN_SLEEP_MINUTES
    IN  ClampSleep(sleepMinutes_)

\* variant: the charging conditions are tested before the two cutoffs
SleepMinutesGivenChargingFirst(batteryVoltage, lightLevel, chargingDetected) ==
    IF chargingDetected \/ lightLevel > CHARGING_LIGHT_THRESHOLD
      THEN MIN_SLEEP_MINUTES
    ELSE IF PolicyUvlo(batteryVoltage) THEN UVLO_SLEEP_MINUTES
    ELSE IF PolicyCritical(batteryVoltage) THEN CRITICAL_SLEEP_MINUTES
    ELSE AdaptiveSleep(batteryVoltage, lightLevel, chargingDetected)

\* the cascade of calculateDynamicSleepTime (main.cpp 665-714) when
\* isCharging() returns chargingDetected; the two cutoffs return before
\* isCharging is called
SleepMinutesGiven(batteryVoltage, lightLevel, chargingDetected) ==
    IF PolicyUvlo(batteryVoltage) THEN UVLO_SLEEP_MINUTES
    ELSE IF PolicyCritical(batteryVoltage) THEN CRITICAL_SLEEP_MINUTES
    ELSE AdaptiveSleep(batteryVoltage, lightLevel, chargingDetected)

\* calculateDynamicSleepTime (main.cpp 661-720); isCharging reads the RTC
\* history, passed here as hist, idx, full
calculateDynamicSleepTime(batteryVoltage, lightLevel, hist, idx, full, oob) ==
    SleepMinutesGiven(batteryVoltage, lightLevel,
                      isCharging(hist, idx, full, oob))

\* bool chargingDetected = isCharging() (main.cpp 676): the call is reached
\* only past the two cutoffs
ChargingDetected(batteryVoltage, hist, idx, full, oob) ==
    /\ ~PolicyUvlo(batteryVoltage)
    /\ ~PolicyCritical(batteryVoltage)
    /\ isCharging(hist, idx, full, oob)

\* the branch of the cascade calculateDynamicSleepTime takes (main.cpp 665-711)
PolicyTier(batteryVoltage, lightLevel, chargingDetected) ==
    IF PolicyUvlo(batteryVoltage) THEN "UVLO"
    ELSE IF PolicyCritical(batteryVoltage) THEN "Critical"
    ELSE IF ChargingConditions(batteryVoltage, lightLevel, chargingDetected)
         THEN "Normal"
    ELSE IF batteryVoltage < BATTERY_LOW_VOLTAGE THEN "LowBattery"
    ELSE "Normal"

\* data.lowBattery (main.cpp 296)
LowBattery(batteryVoltage) ==
    batteryVoltage < BATTERY_LOW_VOLTAGE /\ batteryVoltage > BATTERY_UVLO_VOLTAGE


\* ------------------------------------------------------ Cycle Orchestrator
\* locals of setup() before they are assigned
NoReading == [batteryVoltage |-> 0, lightLevel |-> 0, lowBattery |-> FALSE]
NoPayload == [sent |-> FALSE, low_battery |-> FALSE, sleep_minutes |-> 0,
              charging |-> FALSE, boot_count |-> 0]

\* the RTC variables as the image initialises them (main.cpp 36-42), nothing
\* run yet
Fresh ==
    /\ bootCount = 0
    /\ wifiConfigured = FALSE
    /\ failedUploads = 0
    /\ batteryHistory = EmptyHistory
    /\ batteryHistoryIndex = 0
    /\ batteryHistoryFull = FALSE
    /\ lastSleepDuration = SLEEP_DURATION_MINUTES
    /\ sensorsOK = FALSE
    /\ sensorData = NoReading
    /\ sleepMinutes = 0
    /\ attempt = 0
    /\ httpResponseCode = 0
    /\ uploaded = FALSE
    /\ payload = NoPayload
    /\ wifiOn = FALSE
    /\ timerWakeupS = 0
    /\ trace = <<>>
    /\ failedAtWake = 0
    /\ lastAtWake = SLEEP_DURATION_MINUTES
    /\ sleptS = 0
    /\ appended = <<>>
    /\ policyCharging = FALSE

Init == Fresh /\ pc = "PowerOn" /\ maxRetries = MAX_RETRIES

\* variant: deep sleep is entered with the radio left as it is
enterDeepSleepRadioLeftOn(sleepTimeS, tr) ==
    /\ wifiOn' = wifiOn
    /\ timerWakeupS' = sleepTimeS
    /\ trace' = Append(tr, "sleep")
    /\ pc' = "Suspended"

\* enterDeepSleep (main.cpp 507-544): WiFi.disconnect / WIFI_OFF, the timer
\* wake-up, esp_deep_sleep_start; it does not return.  tr is the trace so far.
enterDeepSleep(sleepTimeS, tr) ==
    /\ wifiOn' = FALSE
    /\ timerWakeupS' = sleepTimeS
    /\ trace' = tr \o <<"detach", "sleep">>
    /\ pc' = "Suspended"

\* variant: bootCount is kept in ordinary RAM, which deep sleep clears
NextBootCountFromZero(b) == 1

\* bootCount++ on the RTC variable (main.cpp 36, 82)
NextBootCount(b) == b + 1

\* timer wake-up or power-on: a fresh setup() starts (main.cpp 78-92)
Wake ==
    /\ pc \in {"PowerOn", "Suspended"}
    /\ bootCount < MaxBoots
    /\ bootCount' = NextBootCount(bootCount)
    /\ pc' = "Sensing"
    /\ sensorsOK' = FALSE
    /\ sensorData' = NoReading
    /\ sleepMinutes' = 0
    /\ attempt' = 0
    /\ httpResponseCode' = 0
    /\ uploaded' = FALSE
    /\ payload' = NoPayload
    /\ wifiOn' = FALSE
    /\ timerWakeupS' = 0
    /\ trace' = <<>>
    /\ failedAtWake' = failedUploads
    /\ lastAtWake' = lastSleepDuration
    /\ sleptS' = timerWakeupS
    /\ policyCharging' = FALSE
    /\ UNCHANGED <<maxRetries, wifiConfigured, failedUploads, batteryHistory,
                   batteryHistoryIndex, batteryHistoryFull, lastSleepDuration,
                   appended>>

\* variant: the abort sleeps for the duration the previous cycle chose
SensorAbortSleepPriorS == lastSleepDuration * 60

\* SLEEP_DURATION_US, the argument of enterDeepSleep on the abort
\* (main.cpp 103), in seconds
SensorAbortSleepS == SLEEP_DURATION_MINUTES * 60

\* variant: a failed read is counted as a failed upload
ReadSensorsCountsFailure ==
    /\ pc = "Sensing"
    /\ \E ok \in BOOLEAN, v \in Voltages, light \in LightLevels :
         /\ sensorsOK' = ok
         /\ failedUploads' = IF ok THEN failedUploads ELSE failedUploads + 1
         /\ sensorData' = [batteryVoltage |-> v, lightLevel |-> light,
                           lowBattery |-> LowBattery(v)]
         /\ IF ok
              THEN /\ pc' = "Deciding"
                   /\ trace' = Append(trace, "read_ok")
                   /\ UNCHANGED <<wifiOn, timerWakeupS>>
              ELSE enterDeepSleep(SensorAbortSleepS,
                                  Append(trace, "read_fail"))
    /\ UNCHANGED <<maxRetries, bootCount, wifiConfigured, batteryHistory,
                   batteryHistoryIndex, batteryHistoryFull, lastSleepDuration,
                   sleepMinutes, attempt, httpResponseCode, uploaded,
                   payload, failedAtWake, lastAtWake, sleptS, appended,
                   policyCharging>>

\* readSensors and the abort on its failure (main.cpp 96-104)
ReadSensors ==
    /\ pc = "Sensing"
    /\ \E ok \in BOOLEAN, v \in Voltages, light \in LightLevels :
         /\ sensorsOK' = ok
         /\ sensorData' = [batteryVoltage |-> v, lightLevel |-> light,
                           lowBattery |-> LowBattery(v)]
         /\ IF ok
              THEN /\ pc' = "Deciding"
                   /\ trace' = Append(trace, "read_ok")
                   /\ UNCHANGED <<wifiOn, timerWakeupS>>
              ELSE enterDeepSleep(SensorAbortSleepS,
                                  Append(trace, "read_fail"))
    /\ UNCHANGED <<maxRetries, rtcVars, sleepMinutes, attempt, httpResponseCode, uploaded,
                   payload, failedAtWake, lastAtWake, sleptS, appended,
                   policyCharging>>

\* variant: setup without any low-voltage exit
LowVoltageExitNone(v) == 0

\* variant: setup with the UVLO exits only
LowVoltageExitUvloOnly(v) ==
    IF v <= BATTERY_UVLO_VOLTAGE THEN UVLO_SLEEP_HOURS * 60 * 60 ELSE 0

\* variant: the critical exit sleeps half a day
LowVoltageExitCriticalHalfDay(v) ==
    IF v <= BATTERY_UVLO_VOLTAGE THEN UVLO_SLEEP_HOURS * 60 * 60
    ELSE IF v < BATTERY_CRITICAL_VOLTAGE THEN 12 * 60 * 60
    ELSE 0

\* the low-voltage exits of setup (main.cpp 113-145): the duration, in
\* seconds, of the deep sleep the first matching check enters; 0 when none does
LowVoltageExit(v) ==
    IF v <= BATTERY_UVLO_VOLTAGE THEN UVLO_SLEEP_HOURS * 60 * 60
    ELSE IF v < BATTERY_CRITICAL_VOLTAGE THEN CRITICAL_BATTERY_SLEEP_HOURS * 60 * 60
    ELSE IF v <= BATTERY_UVLO_VOLTAGE THEN UVLO_SLEEP_HOURS * 60 * 60
    ELSE 0

\* variant: the estimator stores the voltage it classified once more
DecideEstimatorAppends ==
    /\ pc = "Deciding"
    /\ \E oob \in OobValues :
         LET v  == sensorData.batteryVoltage
             h  == updateBatteryHistory(batteryHistory, batteryHistoryIndex,
                                        batteryHistoryFull, v)
             m  == calculateDynamicSleepTime(v, sensorData.lightLevel,
                                             h.history, h.index, h.full, oob)
             tr == trace \o <<"append", "policy">>
             g  == updateBatteryHistory(h.history, h.index, h.full, v)
         IN  /\ batteryHistory' = g.history
             /\ batteryHistoryIndex' = g.index
             /\ batteryHistoryFull' = g.full
             /\ appended' = Append(appended, v)
             /\ sleepMinutes' = m
             /\ lastSleepDuration' = m
             /\ policyCharging' = ChargingDetected(v, h.history, h.index,
                                                   h.full, oob)
             /\ IF LowVoltageExit(v) > 0
                  THEN enterDeepSleep(LowVoltageExit(v), tr)
                ELSE /\ pc' = "Attaching"
                     /\ trace' = tr
                     /\ UNCHANGED <<wifiOn, timerWakeupS>>
    /\ UNCHANGED <<maxRetries, bootCount, wifiConfigured, failedUploads, sensorsOK,
                   sensorData, attempt, httpResponseCode, uploaded, payload,
                   failedAtWake, lastAtWake, sleptS>>

\* history update, sleep policy and the low-voltage exits (main.cpp 106-145)
Decide ==
    /\ pc = "Deciding"
    /\ \E oob \in OobValues :
         LET v  == sensorData.batteryVoltage
             h  == updateBatteryHistory(batteryHistory, batteryHistoryIndex,
                                        batteryHistoryFull, v)
             m  == calculateDynamicSleepTime(v, sensorData.lightLevel,
                                             h.history, h.index, h.full, oob)
             tr == trace \o <<"append", "policy">>
         IN  /\ batteryHistory' = h.history
             /\ batteryHistoryIndex' = h.index
             /\ batteryHistoryFull' = h.full
             /\ appended' = Append(appended, v)
             /\ sleepMinutes' = m
             /\ lastSleepDuration' = m
             /\ policyCharging' = ChargingDetected(v, h.history, h.index,
                                                   h.full, oob)
             /\ IF LowVoltageExit(v) > 0
                  THEN enterDeepSleep(LowVoltageExit(v), tr)
                ELSE /\ pc' = "Attaching"
                     /\ trace' = tr
                     /\ UNCHANGED <<wifiOn, timerWakeupS>>
    /\ UNCHANGED <<maxRetries, bootCount, wifiConfigured, failedUploads, sensorsOK,
                   sensorData, attempt, httpResponseCode, uploaded, payload,
                   failedAtWake, lastAtWake, sleptS>>

\* variant: the failure counter is not touched when the attach fails
OnAttachFailureForgotten(f) == f

\* failedUploads++ after a failed connectWiFi (main.cpp 166)
OnAttachFailure(f) == f + 1

\* variant: the portal is offered on the first boots only
PortalAllowedOnFirstBootsOnly(boots, failed) == boots <= PortalBootLimit

\* bootCount <= 3 || failedUploads > 10 (main.cpp 389)
PortalAllowed(boots, failed) ==
    boots <= PortalBootLimit \/ failed > PortalFailureLimit

\* connectWiFi (main.cpp 359-433) and, when it succeeds, the entry of
\* uploadData up to the first POST (main.cpp 435-459); when it fails,
\* main.cpp 164-168
ConnectWiFi ==
    /\ pc = "Attaching"
    /\ \E stored \in BOOLEAN, portal \in BOOLEAN, oob \in OobValues :
         LET portalRuns == ~stored /\ PortalAllowed(bootCount, failedUploads)
             connected  == stored \/ (portalRuns /\ portal)
             tr == trace \o (IF portalRuns THEN <<"portal">> ELSE <<>>)
         IN  /\ wifiConfigured' = (wifiConfigured \/ (portalRuns /\ portal))
             /\ wifiOn' = TRUE
             /\ IF connected
                  THEN /\ pc' = "Uploading"
                       /\ attempt' = 1
                       /\ payload' = [sent |-> FALSE,
                                      low_battery |-> sensorData.lowBattery,
                                      sleep_minutes |-> sleepMinutes,
                                      charging |-> isCharging(batteryHistory,
                                          batteryHistoryIndex, batteryHistoryFull, oob),
                                      boot_count |-> bootCount]
                       /\ trace' = Append(tr, "attach_ok")
                       /\ UNCHANGED failedUploads
                  ELSE /\ pc' = "Persisting"
                       /\ failedUploads' = OnAttachFailure(failedUploads)
                       /\ trace' = Append(tr, "attach_fail")
                       /\ UNCHANGED <<attempt, payload>>
    /\ UNCHANGED <<maxRetries, bootCount, batteryHistory, batteryHistoryIndex,
                   batteryHistoryFull, lastSleepDuration, sensorsOK, sensorData,
                   sleepMinutes, httpResponseCode, uploaded, timerWakeupS,
                   failedAtWake, lastAtWake, sleptS, appended,
                   policyCharging>>

\* variant: every 2xx status counts as success
IsSuccessAny2xx(code) == code \in 200..299

\* httpResponseCode == 200 (main.cpp 478)
IsSuccess(code) == code = HTTP_OK

\* variant: the delay follows every failed attempt
ColdStartDelayAfterEveryFailure(a) == TRUE

\* variant: the delay follows every failed attempt a retry follows
ColdStartDelayWhileRetriesRemain(a) == a < maxRetries

\* attempt == 1 && attempt < MAX_RETRIES (main.cpp 492)
ColdStartDelayDue(a) == a = 1 /\ a < maxRetries

\* attempt++ of the for loop (main.cpp 462)
NextAttempt(a) == a + 1

\* variant: the loop stops one attempt early (attempt < MAX_RETRIES)
RetryLoopStopsEarly(a) == a < maxRetries

\* attempt <= MAX_RETRIES, the loop condition (main.cpp 462)
RetryLoopContinues(a) == a <= maxRetries

\* variant: the counter is left as it was after a successful upload
OnUploadSuccessKeeps(f) == f

\* failedUploads = 0 (main.cpp 153)
OnUploadSuccess(f) == 0

\* variant: every failed attempt of the cycle is counted
OnUploadFailureCountsAttempts(f) == f + MAX_RETRIES

\* failedUploads++ (main.cpp 157)
OnUploadFailure(f) == f + 1

\* one iteration of the retry loop of uploadData (main.cpp 462-502) and, when
\* the loop ends, the caller's bookkeeping and WiFi shutdown (main.cpp 151-163)
UploadAttempt ==
    /\ pc = "Uploading"
    /\ Len(trace) < MaxTrace
    /\ \E code \in HttpCodes :
         /\ httpResponseCode' = code
         /\ payload' = [payload EXCEPT !.sent = TRUE]
         /\ IF IsSuccess(code)
              THEN /\ uploaded' = TRUE
                   /\ failedUploads' = OnUploadSuccess(failedUploads)
                   /\ wifiOn' = FALSE
                   /\ pc' = "Persisting"
                   /\ trace' = trace \o <<"post_ok", "wifi_off">>
                   /\ UNCHANGED attempt
              ELSE LET next == NextAttempt(attempt)
                       tr   == Append(trace, "post_fail")
                                 \o (IF ColdStartDelayDue(attempt)
                                       THEN <<"cold_delay">> ELSE <<>>)
                   IN  /\ attempt' = next
                       /\ UNCHANGED uploaded
                       /\ IF RetryLoopContinues(next)
                            THEN /\ trace' = tr
                                 /\ UNCHANGED <<pc, failedUploads, wifiOn>>
                            ELSE /\ failedUploads' = OnUploadFailure(failedUploads)
                                 /\ wifiOn' = FALSE
                                 /\ pc' = "Persisting"
                                 /\ trace' = Append(tr, "wifi_off")
    /\ UNCHANGED <<maxRetries, bootCount, wifiConfigured, batteryHistory,
                   batteryHistoryIndex, batteryHistoryFull, lastSleepDuration,
                   sensorsOK, sensorData, sleepMinutes, timerWakeupS,
                   failedAtWake, lastAtWake, sleptS, appended,
                   policyCharging>>

\* variant: setup is run again from the sensor read instead of sleeping
SuspendRestartsSetup ==
    /\ pc = "Persisting"
    /\ pc' = "Sensing"
    /\ UNCHANGED <<maxRetries, rtcVars, sensorsOK, sensorData, sleepMinutes,
                   attempt, httpResponseCode, uploaded, payload, wifiOn,
                   timerWakeupS, ghostVars>>

\* variant: setup returns into loop() without entering deep sleep
SuspendReturns ==
    /\ pc = "Persisting"
    /\ UNCHANGED vars

\* the end of setup(): enterDeepSleep(sleepMinutes * 60 * 1000000ULL)
\* (main.cpp 170-178)
Suspend ==
    /\ pc = "Persisting"
    /\ enterDeepSleep(sleepMinutes * 60, trace)
    /\ UNCHANGED <<maxRetries, rtcVars, sensorsOK, sensorData, sleepMinutes, attempt,
                   httpResponseCode, uploaded, payload, failedAtWake,
                   lastAtWake, sleptS, appended, policyCharging>>

Next ==
    \/ Wake
    \/ ReadSensors
    \/ Decide
    \/ ConnectWiFi
    \/ UploadAttempt
    \/ Suspend

Spec == Init /\ [][Next]_vars

\* The firmware is the only thread of control and every collaborator call
\* returns (WiFi wait, portal and HTTP are bounded by timeouts), so a cycle
\* that can take a step takes it.  The next timer wake-up is not assumed.
CycleStep == ReadSensors \/ Decide \/ ConnectWiFi \/ UploadAttempt \/ Suspend
FairSpec == Spec /\ WF_vars(CycleStep)


\* ------------------------------------------ the estimator and policy alone
\* updateBatteryHistory and calculateDynamicSleepTime applied to every
\* history a sequence of appends builds, with any reading
InitTrend == Fresh /\ pc = "Bench" /\ maxRetries = MAX_RETRIES

AppendSample ==
    /\ pc = "Bench"
    /\ Len(appended) < MaxAppends
    /\ \E v \in TrendVoltages :
         LET h == updateBatteryHistory(batteryHistory, batteryHistoryIndex,
                                       batteryHistoryFull, v)
         IN  /\ batteryHistory' = h.history
             /\ batteryHistoryIndex' = h.index
             /\ batteryHistoryFull' = h.full
             /\ appended' = Append(appended, v)
    /\ trace' = <<"append">>
    /\ sensorsOK' = FALSE
    /\ sensorData' = NoReading
    /\ sleepMinutes' = 0
    /\ policyCharging' = FALSE
    /\ UNCHANGED <<maxRetries, bootCount, wifiConfigured, failedUploads, lastSleepDuration,
                   pc, attempt, httpResponseCode, uploaded, payload, wifiOn,
                   timerWakeupS, failedAtWake, lastAtWake, sleptS>>

\* one evaluation per history: the next step appends
EvaluatePolicy ==
    /\ pc = "Bench"
    /\ appended # <<>>
    /\ trace # <<"policy">>
    /\ \E v \in Voltages, light \in LightLevels, oob \in OobValues :
         /\ sensorsOK' = TRUE
         /\ sensorData' = [batteryVoltage |-> v, lightLevel |-> light,
                           lowBattery |-> LowBattery(v)]
         /\ sleepMinutes' = calculateDynamicSleepTime(v, light, batteryHistory,
                                batteryHistoryIndex, batteryHistoryFull, oob)
         /\ policyCharging' = ChargingDetected(v, batteryHistory,
                                batteryHistoryIndex, batteryHistoryFull, oob)
    /\ trace' = <<"policy">>
    /\ UNCHANGED <<maxRetries, rtcVars, pc, attempt, httpResponseCode, uploaded, payload,
                   wifiOn, timerWakeupS, failedAtWake, lastAtWake, sleptS,
                   appended>>

NextTrend == AppendSample \/ EvaluatePolicy

TrendSpec == InitTrend /\ [][NextTrend]_vars


\* ------------------------------------- builds with a larger MAX_RETRIES
\* the first cycle after power-on of a build whose MAX_RETRIES (a #define of
\* plantbot2_pins.h) is set to 3 or more
InitRetry ==
    Fresh /\ pc = "PowerOn" /\ maxRetries \in 3..MaxConfiguredRetries

FirstWake == bootCount = 0 /\ Wake

NextRetry == FirstWake \/ CycleStep

RetrySpec == InitRetry /\ [][NextRetry]_vars


\* ------------------------------------------- a device long in the field
\* cycles completed before the one modelled: one more than the failures the
\* portal condition of connectWiFi asks for
AgedCycles == PortalFailureLimit + 1

\* the RTC history after updateBatteryHistory was called on each of samples
RECURSIVE HistoryAfter(_)
HistoryAfter(samples) ==
    IF samples = <<>>
      THEN [history |-> EmptyHistory, index |-> 0, full |-> FALSE]
    ELSE LET h == HistoryAfter(SubSeq(samples, 1, Len(samples) - 1))
         IN  updateBatteryHistory(h.history, h.index, h.full,
                                  samples[Len(samples)])

\* every earlier cycle read 3.85 V
AgedSamples == [i \in 1..AgedCycles |-> 32296140]

\* a device that has just woken for cycle AgedCycles + 1, never configured
\* through the portal: its uploads failed in every cycle (failedUploads =
\* AgedCycles), in all but the first, or not in the last (0)
InitAged ==
    /\ pc = "Sensing"
    /\ maxRetries = MAX_RETRIES
    /\ bootCount = AgedCycles + 1
    /\ wifiConfigured = FALSE
    /\ failedUploads \in {0, AgedCycles - 1, AgedCycles}
    /\ batteryHistory = HistoryAfter(AgedSamples).history
    /\ batteryHistoryIndex = HistoryAfter(AgedSamples).index
    /\ batteryHistoryFull = HistoryAfter(AgedSamples).full
    /\ lastSleepDuration = MIN_SLEEP_MINUTES
    /\ sensorsOK = FALSE
    /\ sensorData = NoReading
    /\ sleepMinutes = 0
    /\ attempt = 0
    /\ httpResponseCode = 0
    /\ uploaded = FALSE
    /\ payload = NoPayload
    /\ wifiOn = FALSE
    /\ timerWakeupS = 0
    /\ trace = <<>>
    /\ failedAtWake = failedUploads
    /\ lastAtWake = MIN_SLEEP_MINUTES
    /\ sleptS = MIN_SLEEP_MINUTES * 60
    /\ appended = AgedSamples
    /\ policyCharging = FALSE

\* that one cycle
AgedSpec == InitAged /\ [][CycleStep]_vars


\* ------------------------------------------- histories with a single tick
\* binary32 voltages 3.75, 3.79, 3.85, 3.87 and 3.89 V
TickVoltages == {31457280, 31792824, 32296140, 32463912, 32631686}

\* n readings: n - 1 times the voltage a, then b
TickSamples(a, b, n) == [i \in 1..n |-> IF i < n THEN a ELSE b]

\* a device on the bench whose history was built by updateBatteryHistory from
\* 3 to MaxAppends readings that were level and then rose once
InitTick ==
    /\ pc = "Bench"
    /\ maxRetries = MAX_RETRIES
    /\ bootCount = 0
    /\ wifiConfigured = FALSE
    /\ failedUploads = 0
    /\ \E a \in TickVoltages, b \in TickVoltages, n \in 3..MaxAppends :
         /\ a < b
         /\ appended = TickSamples(a, b, n)
    /\ batteryHistory = HistoryAfter(appended).history
    /\ batteryHistoryIndex = HistoryAfter(appended).index
    /\ batteryHistoryFull = HistoryAfter(appended).full
    /\ lastSleepDuration = SLEEP_DURATION_MINUTES
    /\ sensorsOK = FALSE
    /\ sensorData = NoReading
    /\ sleepMinutes = 0
    /\ attempt = 0
    /\ httpResponseCode = 0
    /\ uploaded = FALSE
    /\ payload = NoPayload
    /\ wifiOn = FALSE
    /\ timerWakeupS = 0
    /\ trace = <<"append">>
    /\ failedAtWake = 0
    /\ lastAtWake = SLEEP_DURATION_MINUTES
    /\ sleptS = 0
    /\ policyCharging = FALSE

\* calculateDynamicSleepTime, and with it isCharging, applied to each of them
TickSpec == InitTick /\ [][EvaluatePolicy]_vars


\* ================================================================ claims
Has(e) == \E i \in DOMAIN trace : trace[i] = e
Count(e) == Cardinality({i \in DOMAIN trace : trace[i] = e})
Posts == Count("post_ok") + Count("post_fail")
PostEvents == {"post_ok", "post_fail"}
\* calculateDynamicSleepTime has returned in this cycle (this evaluation)
PolicyRan == Has("policy")
\* no attach and no delivery attempt so far in this cycle
NoRadio ==
    /\ ~Has("attach_ok") /\ ~Has("attach_fail") /\ ~Has("portal")
    /\ Posts = 0
    /\ ~payload.sent
CycleOver == pc \in {"Persisting", "Suspended"}

\* C1, as stated: whatever the voltage, the light level and the history, the
\* duration calculateDynamicSleepTime returns lies within
\* [MIN_SLEEP_MINUTES, MAX_SLEEP_MINUTES] = [120, 360].
C1_SleepAlwaysWithinMinMax ==
    PolicyRan => sleepMinutes \in MIN_SLEEP_MINUTES..MAX_SLEEP_MINUTES

\* C1, amended: for a voltage above BATTERY_CRITICAL_VOLTAGE the returned
\* duration lies within [120, 360]; at or below it the policy returns the fixed
\* CRITICAL_SLEEP_MINUTES (1440), and at or below BATTERY_UVLO_VOLTAGE the fixed
\* UVLO_SLEEP_MINUTES (2880), both outside that interval.
C1_SleepWithinMinMaxAboveCritical ==
    PolicyRan =>
      IF sensorData.batteryVoltage <= BATTERY_UVLO_VOLTAGE
        THEN sleepMinutes = UVLO_SLEEP_MINUTES
      ELSE IF sensorData.batteryVoltage <= BATTERY_CRITICAL_VOLTAGE
        THEN sleepMinutes = CRITICAL_SLEEP_MINUTES
      ELSE sleepMinutes \in MIN_SLEEP_MINUTES..MAX_SLEEP_MINUTES

C1_Witness ==
    /\ PolicyRan
    /\ batteryHistoryIndex >= 3
    /\ sensorData.batteryVoltage > BATTERY_CRITICAL_VOLTAGE
    /\ sensorData.lightLevel <= CHARGING_LIGHT_THRESHOLD
    /\ sleepMinutes \in MIN_SLEEP_MINUTES..MAX_SLEEP_MINUTES

\* C2: in every cycle whose sensor read succeeded with a battery voltage at or
\* below BATTERY_UVLO_VOLTAGE, the policy returns the UVLO sleep (the UVLO
\* tier), whatever the light level, the history and the classification.
C2_UvloTierBelowUvlo ==
    (sensorsOK /\ PolicyRan /\ sensorData.batteryVoltage <= BATTERY_UVLO_VOLTAGE)
      => /\ sleepMinutes = UVLO_SLEEP_MINUTES
         /\ lastSleepDuration = UVLO_SLEEP_MINUTES
         /\ \A c \in BOOLEAN :
              PolicyTier(sensorData.batteryVoltage, sensorData.lightLevel, c) = "UVLO"

C2_Witness ==
    /\ sensorsOK /\ PolicyRan
    /\ sensorData.batteryVoltage <= BATTERY_UVLO_VOLTAGE
    /\ sensorData.lightLevel > CHARGING_LIGHT_THRESHOLD
    /\ batteryHistoryIndex >= 3
    /\ sleepMinutes = UVLO_SLEEP_MINUTES

\* C3: in a cycle whose battery voltage is at or below BATTERY_UVLO_VOLTAGE
\* there is no network attach and no upload attempt between wake and
\* suspension.
C3_NoRadioBelowUvlo ==
    (pc \notin {"PowerOn", "Sensing"}
       /\ sensorData.batteryVoltage <= BATTERY_UVLO_VOLTAGE)
      => (NoRadio /\ ~wifiOn /\ pc \in {"Deciding", "Suspended"})

C3_Witness ==
    /\ sensorsOK
    /\ sensorData.batteryVoltage <= BATTERY_UVLO_VOLTAGE
    /\ pc = "Suspended"
    /\ timerWakeupS = UVLO_SLEEP_HOURS * 60 * 60
    /\ NoRadio

C5_EveryCycleSuspends ==
    (pc = "Sensing") ~> (pc = "Suspended" /\ timerWakeupS > 0)

C5_Witness ==
    /\ pc = "Suspended"
    /\ timerWakeupS > 0
    /\ Has("attach_ok")
    /\ Count("post_fail") = MAX_RETRIES
    /\ ~uploaded

\* C6: when every delivery attempt fails, uploadData makes exactly MAX_RETRIES
\* attempts and reports failure, nothing is attempted again in that cycle, and
\* failedUploads ends one above its value at wake.
C6_AllAttemptsFail ==
    /\ Posts <= MAX_RETRIES
    /\ (Has("attach_ok") /\ CycleOver /\ ~uploaded)
         => /\ Count("post_fail") = MAX_RETRIES
            /\ Count("post_ok") = 0
            /\ failedUploads = failedAtWake + 1

C6_Witness ==
    /\ pc = "Suspended"
    /\ Has("attach_ok") /\ ~uploaded
    /\ Count("post_fail") = MAX_RETRIES
    /\ failedAtWake >= 1
    /\ failedUploads = failedAtWake + 1

\* C7: a first attempt that fails followed by a second that succeeds gives
\* success after exactly 2 attempts with exactly one cold-start delay, between
\* the two; and a cold-start delay only ever follows a failed first attempt
\* that a retry follows, never a success and never the last attempt.
C7_ColdStartDelayOnce ==
    /\ (uploaded /\ Count("post_fail") = 1)
         => /\ Posts = 2
            /\ Count("cold_delay") = 1
            /\ \E i \in DOMAIN trace :
                 /\ i + 2 <= Len(trace)
                 /\ trace[i] = "post_fail"
                 /\ trace[i + 1] = "cold_delay"
                 /\ trace[i + 2] = "post_ok"
    /\ \A i \in DOMAIN trace :
         trace[i] = "cold_delay"
           => /\ i > 1
              /\ trace[i - 1] = "post_fail"
              /\ \A j \in 1..(i - 2) : trace[j] \notin PostEvents
              /\ i < Len(trace) => trace[i + 1] \in PostEvents
              /\ pc # "Uploading" => i < Len(trace)

C7_Witness ==
    /\ pc = "Suspended"
    /\ uploaded
    /\ Count("post_fail") = 1
    /\ Count("cold_delay") = 1

\* C8: a successful response ends the upload loop at once (no attempt and no
\* delay after it), and failedUploads is then 0 whatever it was at wake.
C8_SuccessEndsLoopAndResets ==
    /\ \A i \in DOMAIN trace :
         trace[i] = "post_ok"
           => \A j \in (i + 1)..Len(trace) :
                trace[j] \notin (PostEvents \cup {"cold_delay"})
    /\ Has("post_ok") => (uploaded /\ CycleOver /\ failedUploads = 0)
    /\ uploaded => Has("post_ok")

C8_Witness ==
    /\ pc = "Suspended"
    /\ uploaded
    /\ failedAtWake >= 1
    /\ failedUploads = 0

\* C9: when the voltage allows the radio and the attach fails, there is no
\* delivery attempt, failedUploads ends one above its value at wake, and the
\* cycle suspends for the duration the policy returned.
C9_AttachFailure ==
    Has("attach_fail")
      => /\ Posts = 0 /\ ~payload.sent /\ ~uploaded
         /\ CycleOver
         /\ failedUploads = failedAtWake + 1
         /\ pc = "Suspended"
              => /\ timerWakeupS = sleepMinutes * 60
                 /\ timerWakeupS = lastSleepDuration * 60

C9_Witness ==
    /\ pc = "Suspended"
    /\ Has("attach_fail")
    /\ failedAtWake >= 1
    /\ timerWakeupS = MIN_SLEEP_MINUTES * 60

\* C10: once more than BATTERY_TREND_SAMPLES samples have been appended, the
\* buffer read oldest to newest from batteryHistoryIndex holds exactly the last
\* BATTERY_TREND_SAMPLES appended samples in append order; after exactly
\* BATTERY_TREND_SAMPLES + 1 appends the slot of the first sample holds the
\* newest one.
C10_RingHoldsLastN ==
    Len(appended) > BATTERY_TREND_SAMPLES
      => /\ batteryHistoryFull
         /\ batteryHistoryIndex = Len(appended) % BATTERY_TREND_SAMPLES
         /\ \A k \in 0..(BATTERY_TREND_SAMPLES - 1) :
              batteryHistory[(batteryHistoryIndex + k) % BATTERY_TREND_SAMPLES]
                = appended[Len(appended) - BATTERY_TREND_SAMPLES + 1 + k]
         /\ Len(appended) = BATTERY_TREND_SAMPLES + 1
              => batteryHistory[0] = appended[Len(appended)]

C10_Witness ==
    /\ Len(appended) = BATTERY_TREND_SAMPLES + 1
    /\ appended[1] # appended[Len(appended)]
    /\ batteryHistory[0] = appended[Len(appended)]
    /\ batteryHistory[1] = appended[2]

\* the ring's variables against the number of appends
C11_RingState ==
    /\ batteryHistoryIndex \in 0..(BATTERY_TREND_SAMPLES - 1)
    /\ batteryHistoryIndex = Len(appended) % BATTERY_TREND_SAMPLES
    /\ batteryHistoryFull <=> (Len(appended) >= BATTERY_TREND_SAMPLES)
    /\ Samples(batteryHistoryIndex, batteryHistoryFull)
         = Min(Len(appended), BATTERY_TREND_SAMPLES)

\* one step of the ring: the flag latches, it is set by the wrap of the index
\* to 0 and by nothing else, and the number of valid samples does not decrease
C11_RingStep ==
    /\ batteryHistoryFull => batteryHistoryFull'
    /\ (~batteryHistoryFull /\ batteryHistoryFull')
         => (batteryHistoryIndex = BATTERY_TREND_SAMPLES - 1
             /\ batteryHistoryIndex' = 0)
    /\ (batteryHistoryIndex # 0 /\ batteryHistoryIndex' = 0)
         => batteryHistoryFull'
    /\ Samples(batteryHistoryIndex', batteryHistoryFull')
         >= Samples(batteryHistoryIndex, batteryHistoryFull)

\* C11: after any sequence of appends, 0 <= batteryHistoryIndex <
\* BATTERY_TREND_SAMPLES; batteryHistoryFull is false until the
\* BATTERY_TREND_SAMPLES-th append, becomes true exactly when the index first
\* wraps to 0 and is never reset; the number of valid samples equals
\* min(number of appends, BATTERY_TREND_SAMPLES) and never decreases.
C11_RingInvariants == []C11_RingState /\ [][C11_RingStep]_vars

C11_Witness ==
    /\ Len(appended) = BATTERY_TREND_SAMPLES + 2
    /\ batteryHistoryFull
    /\ batteryHistoryIndex = 2

\* the payload of this cycle has been built (uploadData reads isCharging)
PayloadBuilt == Has("attach_ok")

\* C12: whenever the history holds fewer than 3 samples (not full and index
\* below 3), isCharging returns false whatever the stored values are, and the
\* charging flag of an upload built on such a history is false.
C12_FewSamplesNotCharging ==
    (~batteryHistoryFull /\ batteryHistoryIndex < 3)
      => /\ \A oob \in OobValues :
              ~isCharging(batteryHistory, batteryHistoryIndex,
                          batteryHistoryFull, oob)
         /\ PayloadBuilt => ~payload.charging

\* two samples, the newest above 4.1 V, and an upload built on them
C12_Witness ==
    /\ ~batteryHistoryFull
    /\ batteryHistoryIndex = 2
    /\ batteryHistory[0] = 32296140
    /\ batteryHistory[1] = 34812724
    /\ PayloadBuilt
    /\ ~payload.charging

\* the stored samples oldest to newest are the last ValidSamples appended
ValidSamples == Samples(batteryHistoryIndex, batteryHistoryFull)
NewestSample == appended[Len(appended)]
OldestSample == appended[Len(appended) - ValidSamples + 1]
\* sum of all consecutive deltas of the stored samples (it telescopes)
AllDeltasSum == NewestSample - OldestSample
\* sum of the most recent min(3, samples - 1) consecutive deltas
LastDeltasCount == Min(3, ValidSamples - 1)
LastDeltasSum == NewestSample - appended[Len(appended) - LastDeltasCount]

\* C13: for every history of at least 3 samples, the overall trend isCharging
\* computes equals the mean of all consecutive deltas of the stored samples
\* ordered oldest to newest, (newest - oldest) / (samples - 1).
C13_OverallSlopeIsMeanOfDeltas ==
    ValidSamples >= 3
      => \A oob \in OobValues :
           OverallSum(batteryHistory, batteryHistoryIndex, ValidSamples - 1, oob)
             = AllDeltasSum

\* the classification the formula gives on the means of the stored deltas
ChargingByDeltas ==
    \/ /\ TrendAbove(LastDeltasSum, LastDeltasCount, RecentRise25)
       /\ TrendAbove(AllDeltasSum, ValidSamples - 1, StableRise25)
       /\ NewestSample > ChargingRangeVoltage
    \/ /\ NewestSample > HighVoltage
       /\ TrendAbove(AllDeltasSum, ValidSamples - 1, -NoiseTolerance25)

\* C14: for every history of at least 3 samples, isCharging returns true
\* exactly when (recent slope > 0.015 and overall slope > 0.005 and newest
\* sample > 3.8) or (newest sample > 4.1 and overall slope > -0.01), the
\* slopes being the means of consecutive deltas of the stored samples.
C14_ChargingIffFormulaOnDeltas ==
    ValidSamples >= 3
      => \A oob \in OobValues :
           isCharging(batteryHistory, batteryHistoryIndex,
                      batteryHistoryFull, oob) <=> ChargingByDeltas

\* exactly 3 samples, both deltas positive, the newest above 4.1 V
RisingToHighVoltage ==
    /\ ~batteryHistoryFull
    /\ batteryHistoryIndex = 3
    /\ batteryHistory[0] < batteryHistory[1]
    /\ batteryHistory[1] < batteryHistory[2]
    /\ batteryHistory[2] > HighVoltage

\* C15: for a history of exactly 3 samples with both deltas positive and the
\* newest sample above the high-voltage threshold, as [4.15, 4.16, 4.18],
\* isCharging returns true and the policy returns the Normal tier with
\* MIN_SLEEP_MINUTES.
C15_ThreeRisingSamplesCharge ==
    (PolicyRan /\ RisingToHighVoltage)
      => /\ \A oob \in OobValues :
              /\ isCharging(batteryHistory, batteryHistoryIndex,
                            batteryHistoryFull, oob)
              /\ PolicyTier(sensorData.batteryVoltage, sensorData.lightLevel,
                            isCharging(batteryHistory, batteryHistoryIndex,
                                       batteryHistoryFull, oob)) = "Normal"
         /\ sleepMinutes = MIN_SLEEP_MINUTES
         /\ PayloadBuilt => (payload.charging
                             /\ payload.sleep_minutes = MIN_SLEEP_MINUTES)

\* the history [4.15f, 4.16f, 4.18f], classified, decided and reported
C15_Witness ==
    /\ batteryHistory[0] = 34812724
    /\ batteryHistory[1] = 34896608
    /\ batteryHistory[2] = 35064380
    /\ batteryHistoryIndex = 3
    /\ PolicyRan
    /\ sleepMinutes = MIN_SLEEP_MINUTES
    /\ PayloadBuilt
    /\ payload.charging

\* binary32 voltages across [BATTERY_LOW_VOLTAGE, BATTERY_MAX_VOLTAGE]: the
\* first at or above 3.7, 3.85f, both neighbours of 3.9, 4.0, both neighbours
\* of 4.1, 4.15f, 4.18f and the last at or below 4.2
LowToHighVoltages ==
    {31037850, 32296140, 32715570, 32715572, 33554432, 34393292, 34393296,
     34812724, 35064380, 35232152}

\* the stored history is classified as not charging
NotCharging ==
    \A oob \in OobValues :
      ~isCharging(batteryHistory, batteryHistoryIndex, batteryHistoryFull, oob)

\* C16: with the classification false and the light level at or below
\* CHARGING_LIGHT_THRESHOLD, for any two voltages v1 <= v2 within
\* [BATTERY_LOW_VOLTAGE, BATTERY_MAX_VOLTAGE] (which contains the range up to
\* 4.1 V) the policy's minutes for v2 are not greater than its minutes for v1.
C16_MinutesNonIncreasingInVoltage ==
    /\ \A light \in LightLevels, v1, v2 \in LowToHighVoltages :
         (light <= CHARGING_LIGHT_THRESHOLD /\ v1 <= v2)
           => SleepMinutesGiven(v2, light, FALSE)
                <= SleepMinutesGiven(v1, light, FALSE)
    /\ (trace = <<"policy">>
          /\ sensorData.lightLevel <= CHARGING_LIGHT_THRESHOLD
          /\ sensorData.batteryVoltage >= BATTERY_LOW_VOLTAGE
          /\ NotCharging)
         => /\ sleepMinutes = SleepMinutesGiven(sensorData.batteryVoltage,
                                                sensorData.lightLevel, FALSE)
            /\ \A v2 \in LowToHighVoltages :
                 LET m2 == SleepMinutesGiven(v2, sensorData.lightLevel, FALSE)
                 IN  /\ sensorData.batteryVoltage <= v2 => m2 <= sleepMinutes
                     /\ v2 <= sensorData.batteryVoltage => sleepMinutes <= m2

\* the policy evaluated at 3.85 V in low light on a full history that is not
\* classified as charging
C16_Witness ==
    /\ trace = <<"policy">>
    /\ batteryHistoryFull
    /\ NotCharging
    /\ sensorData.lightLevel <= CHARGING_LIGHT_THRESHOLD
    /\ sensorData.batteryVoltage = 32296140
    /\ sleepMinutes = MIN_SLEEP_MINUTES

\* C17: on every path of every cycle WiFi is disconnected and turned off
\* before esp_deep_sleep_start, and connectWiFi has succeeded before any POST.
C17_DetachBeforeSleepAttachBeforeUpload ==
    /\ \A i \in DOMAIN trace :
         trace[i] = "sleep" => (i > 1 /\ trace[i - 1] = "detach")
    /\ \A i \in DOMAIN trace :
         trace[i] \in PostEvents
           => \E j \in 1..(i - 1) : trace[j] = "attach_ok"
    /\ pc = "Suspended" => (Has("sleep") /\ ~wifiOn)
    /\ pc = "Uploading" => (Has("attach_ok") /\ wifiOn)

\* an upload that failed on every attempt, then the detach and the sleep
C17_Witness ==
    /\ pc = "Suspended"
    /\ Len(trace) >= 2
    /\ trace[Len(trace) - 1] = "detach"
    /\ trace[Len(trace)] = "sleep"
    /\ Has("attach_ok")
    /\ Count("post_fail") = MAX_RETRIES
    /\ ~wifiOn

\* C18: in every cycle whose sensor read succeeded, the duration passed to
\* enterDeepSleep is exactly the minutes calculateDynamicSleepTime returned in
\* that cycle, the value stored in lastSleepDuration, on the UVLO, Critical,
\* upload and skipped-upload paths alike.
C18_SleepsForDecidedMinutes ==
    (pc = "Suspended" /\ sensorsOK)
      => /\ PolicyRan
         /\ timerWakeupS = sleepMinutes * 60
         /\ lastSleepDuration = sleepMinutes
         /\ \E oob \in OobValues :
              sleepMinutes = calculateDynamicSleepTime(
                  sensorData.batteryVoltage, sensorData.lightLevel,
                  batteryHistory, batteryHistoryIndex, batteryHistoryFull, oob)

\* the Critical exit: 24 hours requested, 1440 minutes decided
C18_Witness ==
    /\ pc = "Suspended"
    /\ sensorsOK
    /\ sensorData.batteryVoltage > BATTERY_UVLO_VOLTAGE
    /\ lastSleepDuration = CRITICAL_SLEEP_MINUTES
    /\ timerWakeupS = CRITICAL_SLEEP_MINUTES * 60

\* C19: at every wake from deep sleep, lastSleepDuration equals the duration
\* of the suspension just completed, whichever path the previous cycle took.
C19_LastSleepIsSleptDuration ==
    sleptS > 0 => lastAtWake * 60 = sleptS

\* C20, as stated: when readSensors fails, the duration passed to
\* enterDeepSleep equals lastSleepDuration, the minutes the previous cycle
\* chose.
C20_AbortSleepsPriorDuration ==
    (pc = "Suspended" /\ Has("read_fail"))
      => timerWakeupS = lastSleepDuration * 60

\* C20, amended: when readSensors fails, the cycle goes straight to deep sleep
\* for the fixed default SLEEP_DURATION_MINUTES (120), whatever
\* lastSleepDuration holds; the history, lastSleepDuration and failedUploads
\* are left as they were and the radio is not used.
C20_AbortSleepsDefaultDuration ==
    Has("read_fail")
      => /\ pc = "Suspended"
         /\ ~sensorsOK
         /\ timerWakeupS = SLEEP_DURATION_MINUTES * 60
         /\ lastSleepDuration = lastAtWake
         /\ failedUploads = failedAtWake
         /\ ~Has("append") /\ ~PolicyRan /\ NoRadio

\* an abort in a cycle that follows a 48 hour decision
C20_Witness ==
    /\ pc = "Suspended"
    /\ Has("read_fail")
    /\ lastSleepDuration = UVLO_SLEEP_MINUTES
    /\ timerWakeupS = SLEEP_DURATION_MINUTES * 60

\* one step of bootCount: a wake adds exactly one, nothing else changes it
C21_BootStep ==
    IF pc \in {"PowerOn", "Suspended"} /\ pc' = "Sensing"
      THEN bootCount' = bootCount + 1
      ELSE bootCount' = bootCount

\* C21: bootCount is 0 before the first wake, every wake increments it exactly
\* once whatever path the cycle before it took, no other step changes it
\* (deep sleep keeps it), so that after k wakes bootCount = k; the upload
\* reports that value.
C21_BootCountCountsWakes ==
    /\ [](bootCount = 0 <=> pc = "PowerOn")
    /\ [](PayloadBuilt => payload.boot_count = bootCount)
    /\ [][C21_BootStep]_vars

\* the third wake, after an aborted cycle, reporting 3
C21_Witness ==
    /\ bootCount = 3
    /\ sleptS = SLEEP_DURATION_MINUTES * 60
    /\ PayloadBuilt
    /\ payload.boot_count = 3

\* C22, as stated: failedUploads is purely diagnostic: the attach procedure of
\* a cycle would be the same with any other value of the counter (a portal
\* that ran would have run whatever the counter held).
C22_FailureCounterIsDiagnostic ==
    Has("portal")
      => \A failed \in 0..(bootCount - 1) : PortalAllowed(bootCount, failed)

\* C22, amended: failedUploads changes neither the number of upload attempts
\* nor the sleep duration, but it does change the attach procedure: when the
\* stored credentials fail after the third boot, the configuration portal runs
\* exactly when failedUploads is above 10.
C22_FailureCounterOnlyOpensPortal ==
    /\ Has("portal")
         => (bootCount <= PortalBootLimit \/ failedAtWake > PortalFailureLimit)
    /\ (Has("attach_fail") /\ ~Has("portal"))
         => (bootCount > PortalBootLimit /\ failedAtWake <= PortalFailureLimit)
    /\ Posts <= MAX_RETRIES
    /\ (PayloadBuilt /\ CycleOver /\ ~uploaded)
         => Count("post_fail") = MAX_RETRIES
    /\ (pc = "Suspended" /\ sensorsOK)
         => \E oob \in OobValues :
              timerWakeupS = 60 * calculateDynamicSleepTime(
                  sensorData.batteryVoltage, sensorData.lightLevel,
                  batteryHistory, batteryHistoryIndex, batteryHistoryFull, oob)

\* the portal opened by the counter alone, long after the third boot
C22_Witness ==
    /\ Has("portal")
    /\ bootCount > PortalBootLimit
    /\ failedAtWake = PortalFailureLimit + 1
    /\ pc = "Suspended"

\* the POSTs of this cycle, and the number of the POST at trace position i
PostIndexes == {i \in DOMAIN trace : trace[i] \in PostEvents}
PostNumber(i) == Cardinality({j \in PostIndexes : j <= i})

\* C23, as stated: with MAX_RETRIES >= 3, every failed attempt after the first
\* that is not the last is followed by a short retry delay before the next
\* attempt.
C23_ShortDelayAfterLaterFailures ==
    \A i \in DOMAIN trace :
      (trace[i] = "post_fail" /\ PostNumber(i) > 1
         /\ PostNumber(i) < maxRetries /\ i < Len(trace))
        => trace[i + 1] = "retry_delay"

\* C23, amended: with MAX_RETRIES >= 3, the only delay of uploadData is the
\* one after a failed first attempt; every later failed attempt is followed
\* at once by the next attempt or, after the last, by the return.
C23_OnlyFirstFailureDelays ==
    /\ \A i \in DOMAIN trace :
         (trace[i] = "post_fail" /\ PostNumber(i) > 1 /\ i < Len(trace))
           => trace[i + 1] \in (PostEvents \cup {"wifi_off"})
    /\ \A i \in DOMAIN trace :
         (trace[i] = "post_fail" /\ PostNumber(i) = 1)
           => (i < Len(trace) /\ trace[i + 1] = "cold_delay")
    /\ Count("cold_delay") <= 1
    /\ (PayloadBuilt /\ CycleOver /\ ~uploaded)
         => Count("post_fail") = maxRetries

\* three or more attempts, all failed, one delay
C23_Witness ==
    /\ maxRetries >= 3
    /\ pc = "Suspended"
    /\ Count("post_fail") = maxRetries
    /\ Count("cold_delay") = 1

\* the fixed sleep of the two cutoffs
CutoffMinutes(v) ==
    IF v <= BATTERY_UVLO_VOLTAGE THEN UVLO_SLEEP_MINUTES
    ELSE CRITICAL_SLEEP_MINUTES

\* C24: the cascade is first-match-wins: at or below BATTERY_CRITICAL_VOLTAGE
\* the policy returns the Critical (at or below BATTERY_UVLO_VOLTAGE the UVLO)
\* fixed sleep whatever the classification and the light level are.
C24_CutoffsBeforeCharging ==
    /\ \A v \in Voltages, light \in LightLevels, c \in BOOLEAN :
         v <= BATTERY_CRITICAL_VOLTAGE
           => SleepMinutesGiven(v, light, c) = CutoffMinutes(v)
    /\ (trace = <<"policy">>
          /\ sensorData.batteryVoltage <= BATTERY_CRITICAL_VOLTAGE)
         => sleepMinutes = CutoffMinutes(sensorData.batteryVoltage)

\* a critical voltage evaluated in bright light on a history that is
\* classified as charging
C24_Witness ==
    /\ trace = <<"policy">>
    /\ sensorData.batteryVoltage = BATTERY_CRITICAL_VOLTAGE - 1
    /\ sensorData.lightLevel > CHARGING_LIGHT_THRESHOLD
    /\ sleepMinutes = CRITICAL_SLEEP_MINUTES
    /\ \A oob \in OobValues :
         isCharging(batteryHistory, batteryHistoryIndex, batteryHistoryFull, oob)

\* any of the three charging conditions of the claim
AnyChargingCondition(v, light, c) ==
    \/ c
    \/ (light > CHARGING_LIGHT_THRESHOLD /\ v > LightBackupVoltage)
    \/ (v > CHARGING_DETECT_VOLTAGE /\ v > HighVoltage)

\* C25: for every voltage above BATTERY_CRITICAL_VOLTAGE, if isCharging is
\* true, or the light is above CHARGING_LIGHT_THRESHOLD and the voltage above
\* 3.9, or the voltage is above CHARGING_DETECT_VOLTAGE and above 4.1, the
\* policy returns exactly MIN_SLEEP_MINUTES.
C25_ChargingGivesMinSleep ==
    /\ \A v \in Voltages, light \in LightLevels, c \in BOOLEAN :
         (v > BATTERY_CRITICAL_VOLTAGE /\ AnyChargingCondition(v, light, c))
           => SleepMinutesGiven(v, light, c) = MIN_SLEEP_MINUTES
    /\ (trace = <<"policy">>
          /\ sensorData.batteryVoltage > BATTERY_CRITICAL_VOLTAGE
          /\ AnyChargingCondition(sensorData.batteryVoltage,
                                  sensorData.lightLevel, ~NotCharging))
         => sleepMinutes = MIN_SLEEP_MINUTES

\* 3.85 V in low light: the classification is the only condition that holds
C25_Witness ==
    /\ trace = <<"policy">>
    /\ sensorData.batteryVoltage = 32296140
    /\ sensorData.lightLevel <= CHARGING_LIGHT_THRESHOLD
    /\ \A oob \in OobValues :
         isCharging(batteryHistory, batteryHistoryIndex, batteryHistoryFull, oob)
    /\ sleepMinutes = MIN_SLEEP_MINUTES

\* C27: for every history of at least 3 samples, the recent trend isCharging
\* computes is the mean of the most recent min(3, samples - 1) consecutive
\* deltas of the stored samples, also where they lie across the wraparound of
\* the buffer.
C27_RecentSlopeIsMeanOfLastDeltas ==
    ValidSamples >= 3
      => /\ RecentSamples(batteryHistoryIndex, batteryHistoryFull)
              = LastDeltasCount
         /\ \A oob \in OobValues :
              RecentSum(batteryHistory, batteryHistoryIndex,
                        LastDeltasCount, oob) = LastDeltasSum

\* the newest sample in slot 0, the three before it in slots 9, 8 and 7
C27_Witness ==
    /\ batteryHistoryFull
    /\ batteryHistoryIndex = 1
    /\ batteryHistory[0] = 34812724
    /\ batteryHistory[7] = 32296140
    /\ LastDeltasSum = 34812724 - 32296140

\* C29: in every cycle whose sensor read succeeded exactly one sample, that
\* cycle's battery voltage, is appended, before isCharging and the policy run,
\* so that currentVoltage is the sample just appended; also in cycles that end
\* at the UVLO or Critical exit.  A cycle whose read failed appends nothing.
C29_AppendsOnceBeforePolicy ==
    /\ Count("append") <= 1
    /\ \A i \in DOMAIN trace :
         trace[i] = "policy" => (i > 1 /\ trace[i - 1] = "append")
    /\ Has("read_fail") => ~Has("append")
    /\ (sensorsOK /\ pc # "Deciding")
         => /\ Count("append") = 1
            /\ PolicyRan
            /\ appended # <<>>
            /\ appended[Len(appended)] = sensorData.batteryVoltage
            /\ Len(appended) <= bootCount
            /\ \A oob \in OobValues :
                 CurrentVoltage(batteryHistory, batteryHistoryIndex, oob)
                   = sensorData.batteryVoltage

\* a second cycle that ends at the UVLO exit
C29_Witness ==
    /\ pc = "Suspended"
    /\ sensorsOK
    /\ sensorData.batteryVoltage <= BATTERY_UVLO_VOLTAGE
    /\ batteryHistoryIndex = 2
    /\ batteryHistory[1] = sensorData.batteryVoltage
    /\ batteryHistory[0] # batteryHistory[1]

\* the abort step leaves every RTC variable as it is
C30_AbortStep ==
    (pc = "Sensing" /\ pc' = "Suspended")
      => UNCHANGED <<batteryHistory, batteryHistoryIndex, batteryHistoryFull,
                     failedUploads, lastSleepDuration, wifiConfigured,
                     bootCount, appended>>

\* a cycle whose read failed consists of the read, the detach and the sleep
C30_AbortState ==
    Has("read_fail")
      => /\ trace = <<"read_fail", "detach", "sleep">>
         /\ failedUploads = failedAtWake
         /\ lastSleepDuration = lastAtWake
         /\ bootCount >= 1
         /\ ~uploaded /\ ~payload.sent /\ ~wifiOn

\* C30: a cycle in which readSensors fails leaves the voltage history (samples,
\* index, full flag), failedUploads and lastSleepDuration unchanged, runs
\* neither isCharging nor the policy, attaches to no network and makes no
\* upload attempt; of the RTC variables only bootCount, incremented at the
\* wake, has changed.
C30_SensorAbortChangesNothing ==
    []C30_AbortState /\ [][C30_AbortStep]_vars

\* an abort in the third cycle, after two cycles that left two samples and
\* two failures
C30_Witness ==
    /\ Has("read_fail")
    /\ pc = "Suspended"
    /\ bootCount = 3
    /\ batteryHistoryIndex = 2
    /\ failedUploads = 2

\* the stored samples are level except for the newest, which is higher, and
\* the newest is not above 4.1 V
SingleTick ==
    /\ ValidSamples >= 3
    /\ \A k \in (Len(appended) - ValidSamples + 2)..(Len(appended) - 1) :
         appended[k] = appended[k - 1]
    /\ NewestSample > appended[Len(appended) - 1]
    /\ NewestSample <= HighVoltage
TickSize == NewestSample - appended[Len(appended) - 1]

\* C28, as stated: for every history of at least 3 samples whose consecutive
\* deltas are all zero except the most recent, which is positive, and whose
\* newest sample is not above 4.1 V, isCharging returns false.
C28_SingleTickNeverCharging ==
    (trace = <<"policy">> /\ SingleTick) => NotCharging

\* C28, amended: for such a history isCharging returns false if the tick is at
\* most 0.015 V times min(3, samples - 1), or the newest sample is not above
\* 3.8 V.
C28_SmallOrLowTickNeverCharging ==
    (trace = <<"policy">> /\ SingleTick
       /\ (\/ 25 * TickSize <= RecentRise25 * LastDeltasCount
           \/ NewestSample <= ChargingRangeVoltage))
      => NotCharging

\* three readings of 3.85 V and one of 3.89 V: a tick of 0.04 V, evaluated
C28_Witness ==
    /\ trace = <<"policy">>
    /\ appended = <<32296140, 32296140, 32296140, 32631686>>
    /\ SingleTick
    /\ 25 * TickSize > RecentRise25 * 2
    /\ NotCharging

\* the position in the pipeline of each event and of each value of pc
EventStage(e) ==
    CASE e \in {"read_ok", "read_fail"} -> 1
      [] e \in {"append", "policy"} -> 2
      [] e \in {"portal", "attach_ok", "attach_fail"} -> 3
      [] e \in {"post_ok", "post_fail", "cold_delay", "wifi_off"} -> 4
      [] e = "detach" -> 5
      [] e = "sleep" -> 6
      [] OTHER -> 0
PcStage(p) ==
    CASE p = "PowerOn" -> 0
      [] p = "Sensing" -> 1
      [] p = "Deciding" -> 2
      [] p = "Attaching" -> 3
      [] p = "Uploading" -> 4
      [] p = "Persisting" -> 5
      [] p = "Suspended" -> 6
      [] OTHER -> 7

\* what has happened so far in the cycle is in pipeline order, each stage at
\* most once, and the sleep is the last event
C31_PipelineState ==
    /\ \A i, j \in DOMAIN trace :
         i < j => EventStage(trace[i]) <= EventStage(trace[j])
    /\ \A i \in DOMAIN trace : EventStage(trace[i]) <= PcStage(pc)
    /\ Count("read_ok") + Count("read_fail") <= 1
    /\ Count("append") <= 1
    /\ Count("policy") <= 1
    /\ Count("attach_ok") + Count("attach_fail") <= 1
    /\ Count("post_ok") <= 1
    /\ Count("wifi_off") <= 1
    /\ Count("detach") <= 1
    /\ Count("sleep") <= 1
    /\ Has("sleep") <=> pc = "Suspended"
    /\ Has("sleep") => trace[Len(trace)] = "sleep"
    /\ Has("post_ok") => (Has("attach_ok") /\ Has("policy"))
    /\ Has("policy") => Has("read_ok")

\* a step moves forward in the pipeline, and the only step of a suspended
\* device is the next wake
C31_PipelineStep ==
    /\ pc' # pc
         => \/ PcStage(pc') > PcStage(pc)
            \/ (pc = "Suspended" /\ pc' = "Sensing")
    /\ pc = "Suspended" => (pc' = "Sensing" /\ trace' = <<>>)
    /\ pc' = pc => (pc = "Uploading" /\ Len(trace') > Len(trace))

\* C31: each cycle goes through Sensing, Deciding, attach and upload (or the
\* skip), persisting and suspension in that order, possibly skipping stages
\* on the abort and low-voltage paths, and never goes back: at most one
\* sensor read, append, policy decision, attach and upload run per cycle, and
\* nothing runs after the call that suspends.
C31_StrictPipeline ==
    []C31_PipelineState /\ [][C31_PipelineStep]_vars

\* a cycle that went through every stage, with a retry
C31_Witness ==
    /\ pc = "Suspended"
    /\ trace = <<"read_ok", "append", "policy", "attach_ok", "post_fail",
                 "cold_delay", "post_ok", "wifi_off", "detach", "sleep">>
    /\ bootCount = 2

\* one delivery attempt: success exactly on status 200, any other code is a
\* failed attempt that uses up one attempt of the budget
C32_AttemptStep ==
    pc = "Uploading"
      => /\ httpResponseCode' \in HttpCodes
         /\ IF httpResponseCode' = 200
              THEN /\ uploaded'
                   /\ Count("post_ok")' = 1
                   /\ Count("post_fail")' = Count("post_fail")
                   /\ attempt' = attempt
              ELSE /\ ~uploaded'
                   /\ Count("post_ok")' = 0
                   /\ Count("post_fail")' = Count("post_fail") + 1
                   /\ attempt' = attempt + 1

\* the outcome recorded for the cycle agrees with the last status code
C32_AttemptState ==
    /\ uploaded <=> Has("post_ok")
    /\ uploaded => httpResponseCode = 200
    /\ Has("post_fail") => (uploaded \/ httpResponseCode # 200)
    /\ PayloadBuilt => attempt = Count("post_fail") + 1
    /\ Count("post_fail") <= maxRetries

\* C32: an upload attempt succeeds if and only if the status is exactly 200;
\* any other status (other 2xx codes, error statuses, the non-positive codes
\* of transport errors and timeouts) is a failed attempt and consumes one
\* attempt of the budget.
C32_SuccessIsExactly200 ==
    []C32_AttemptState /\ [][C32_AttemptStep]_vars

\* both attempts answered, the second with 201: the upload has failed
C32_Witness ==
    /\ pc = "Persisting"
    /\ httpResponseCode = 201
    /\ Count("post_fail") = MAX_RETRIES
    /\ attempt = MAX_RETRIES + 1
    /\ ~uploaded
    /\ failedUploads = failedAtWake + 1

\* of the history only the slot at the write index may change in a step, and
\* only in the step that appends the reading; the index then moves on by one
C33_HistoryStep ==
    IF pc = "Deciding"
      THEN /\ batteryHistoryIndex'
                = (batteryHistoryIndex + 1) % BATTERY_TREND_SAMPLES
           /\ batteryHistory'[batteryHistoryIndex] = sensorData.batteryVoltage
           /\ \A k \in 0..(BATTERY_TREND_SAMPLES - 1) :
                k # batteryHistoryIndex => batteryHistory'[k] = batteryHistory[k]
           /\ batteryHistoryFull'
                = (batteryHistoryFull \/ batteryHistoryIndex' = 0)
           /\ UNCHANGED <<bootCount, failedUploads>>
      ELSE UNCHANGED <<batteryHistory, batteryHistoryIndex, batteryHistoryFull>>

\* the payload carries the classification and the duration of the policy,
\* and the duration is the one the timer is set to
C33_PayloadAgrees ==
    /\ PayloadBuilt => /\ payload.charging = policyCharging
                       /\ payload.sleep_minutes = sleepMinutes
                       /\ lastSleepDuration = sleepMinutes
    /\ (PayloadBuilt /\ pc = "Suspended")
         => timerWakeupS = 60 * payload.sleep_minutes

\* C33: isCharging and calculateDynamicSleepTime do not write the persistent
\* state: the history, its index and full flag change only by the append of
\* the cycle's reading, and bootCount and failedUploads not at all while the
\* policy runs; so the charging value of the payload is the classification
\* the policy used, and the payload's sleep_minutes is the duration requested
\* at suspension.
C33_EstimatorAndPolicyReadOnly ==
    []C33_PayloadAgrees /\ [][C33_HistoryStep]_vars

\* a third cycle in which the policy found the battery charging, uploaded and
\* suspended
C33_Witness ==
    /\ pc = "Suspended"
    /\ payload.sent
    /\ policyCharging
    /\ payload.charging
    /\ batteryHistoryIndex = 3
    /\ timerWakeupS = 60 * MIN_SLEEP_MINUTES

\* the slots that hold the stored samples, the newest and the oldest of them
WrittenSlots ==
    {(batteryHistoryIndex - k + BATTERY_TREND_SAMPLES) % BATTERY_TREND_SAMPLES :
        k \in 1..ValidSamples}
NewestSlot ==
    (batteryHistoryIndex - 1 + BATTERY_TREND_SAMPLES) % BATTERY_TREND_SAMPLES
OldestSlot == IF batteryHistoryFull THEN batteryHistoryIndex ELSE 0
DeltasRead ==
    RecentDeltasRead(batteryHistoryIndex, batteryHistoryFull)
      \cup OverallDeltasRead(batteryHistoryIndex, batteryHistoryFull)

\* C34: for every history of 3 to BATTERY_TREND_SAMPLES samples, every slot
\* isCharging reads for the recent and the overall trend is one of the
\* `samples` most recently written slots, and no delta it adds is the one
\* across the seam between the oldest and the newest sample.
C34_ReadsOnlyStoredSamples ==
    ValidSamples >= 3
      => \A d \in DeltasRead :
           /\ d[1] \in WrittenSlots
           /\ d[2] \in WrittenSlots
           /\ d # <<OldestSlot, NewestSlot>>

\* the three durations the shipped thresholds leave
ShippedDurations ==
    {MIN_SLEEP_MINUTES, CRITICAL_SLEEP_MINUTES, UVLO_SLEEP_MINUTES}

UploadFailed ==
    Has("attach_fail") \/ (Has("post_fail") /\ ~uploaded /\ CycleOver)

\* where failedUploads stands in the cycle, against its value at the wake
C36_CounterState ==
    /\ failedUploads \in {0, failedAtWake, failedAtWake + 1}
    /\ uploaded => failedUploads = 0
    /\ UploadFailed => failedUploads = failedAtWake + 1
    /\ (~uploaded /\ ~UploadFailed) => failedUploads = failedAtWake
    /\ (pc = "Suspended" /\ NoRadio) => failedUploads = failedAtWake

\* a step changes failedUploads only by the reset after a successful upload
\* or by one increment, the first change of the cycle, when the upload failed
C36_CounterStep ==
    failedUploads' # failedUploads
      => \/ (failedUploads' = 0 /\ uploaded')
         \/ /\ failedUploads' = failedUploads + 1
            /\ failedUploads = failedAtWake
            /\ pc \in {"Attaching", "Uploading"}
            /\ pc' = "Persisting"
            /\ ~uploaded'

\* C36: in a cycle failedUploads is reset to 0 (the upload succeeded),
\* incremented by exactly 1 (the attach failed or every attempt failed), or
\* left unchanged (sensor abort, UVLO exit, Critical exit); it is never
\* incremented twice in a cycle and never in a cycle that skips the upload.
C36_FailureCounterChangesOncePerCycle ==
    []C36_CounterState /\ [][C36_CounterStep]_vars

\* a second failed upload in a row, after both attempts failed
C36_Witness ==
    /\ pc = "Suspended"
    /\ failedAtWake = 1
    /\ failedUploads = 2
    /\ Count("post_fail") = MAX_RETRIES

\* C37: in every cycle in which an upload attempt is made the payload's
\* low_battery is false: the flag is set only for a voltage above
\* BATTERY_UVLO_VOLTAGE and below BATTERY_LOW_VOLTAGE, and a cycle with such
\* a voltage suspends before the attach, so no record sent carries
\* low_battery = true.
C37_NoUploadedRecordIsLowBattery ==
    /\ PayloadBuilt => (~payload.low_battery /\ ~sensorData.lowBattery)
    /\ Posts > 0 => (PayloadBuilt /\ payload.sent)
    /\ sensorsOK
         => (sensorData.lowBattery
               <=> /\ sensorData.batteryVoltage > BATTERY_UVLO_VOLTAGE
                   /\ sensorData.batteryVoltage < BATTERY_LOW_VOLTAGE)
    /\ (sensorsOK /\ sensorData.lowBattery /\ pc # "Deciding")
         => (pc = "Suspended" /\ NoRadio)

\* a record sent at 3.7f, the lowest voltage at which the cycle uploads
C37_Witness ==
    /\ payload.sent
    /\ uploaded
    /\ sensorData.batteryVoltage = 31037850
    /\ ~payload.low_battery

=============================================================================
